---- MODULE Spec2Model ----
(***************************************************************************)
(* Model of the dbt_mastery incremental pipeline:                          *)
(*   dags/utils/file_helpers.py   find_latest_csv, move_file,              *)
(*                                check_file_exists                        *)
(*   dags/dbt_mastery_pipeline.py check_for_new_csv, load_csv_to_mysql,    *)
(*                                archive_processed_csv, the task graph    *)
(*   dags/config/dbt_config.py    directories and the file pattern         *)
(*                                                                         *)
(* A file name is a sequence of tokens, e.g. <<"routes_", "a", ".csv">>,   *)
(* so that glob matching and os.path.splitext are computed on the name.    *)
(* The intake directory maps names to files; a file carries an identity    *)
(* (id), its modification time, its size and its number of data rows.      *)
(* The Raw Table is modelled by its row count.                             *)
(***************************************************************************)
EXTENDS Integers, Sequences, FiniteSets, TLC

\* ------------------------------------------------------------------ bounds
MaxRuns   == 2      \* DAG runs triggered
MaxEnv    == 2      \* steps of the environment: files written, files removed, seconds
MaxChunks == 1      \* a non-empty file has MaxChunks full chunks and one row more

\* ------------------------------------------------------- program constants
CHUNKSIZE == 10000  \* to_sql(chunksize=10000)
RETRIES   == 1      \* default_args['retries']

\* Python None where a path is expected: the empty name.
None   == <<>>
\* No exception.
NoError == "NoError"
\* A task that has not returned; a returned value v is <<v>>.
NoReturn == <<>>
NoFile == [id |-> 0, mtime |-> 0, size |-> 0, rows |-> 0]

\* File names of the model; CSV_FILE_PATTERN is 'routes_*.csv'.
Names == { <<"routes_", "a", ".csv">>, <<"routes_", "b", ".csv">>, <<"notes", ".csv">> }

\* Data rows of a non-empty file: to_sql writes it as MaxChunks full chunks
\* and a last chunk of one row.
RowChoices == {MaxChunks * CHUNKSIZE + 1}

\* The files a producer can write: empty (0 bytes) or a header line and N rows.
\* size counts lines, which is zero exactly when the byte length is zero.
Contents == {[size |-> 0, rows |-> 0]} \cup {[size |-> n + 1, rows |-> n] : n \in RowChoices}

\* ------------------------------------------------------------- task graph
Tasks == <<"check_new_data", "load_raw_data_to_mysql", "dbt_deps",
           "run_staging_models", "test_staging_models",
           "run_intermediate_models", "test_intermediate_models",
           "run_marts_models", "test_marts_models",
           "archive_processed_csv">>

TaskIds == {Tasks[i] : i \in 1..Len(Tasks)}

BashTasks == {"dbt_deps", "run_staging_models", "test_staging_models",
              "run_intermediate_models", "test_intermediate_models",
              "run_marts_models", "test_marts_models"}

\* A TaskGroup: its root tasks and its leaf tasks.
staging_group      == [roots |-> {"run_staging_models"}, leaves |-> {"test_staging_models"}]
intermediate_group == [roots |-> {"run_intermediate_models"}, leaves |-> {"test_intermediate_models"}]
marts_group        == [roots |-> {"run_marts_models"}, leaves |-> {"test_marts_models"}]

\* Mutant of Chain: a >> b links the roots of a, not its leaves, to b.
ChainRoots(a, b) == a.roots \X b.roots

\* a >> b : every leaf of a is upstream of every root of b.
Chain(a, b) == a.leaves \X b.roots
Single(t)   == [roots |-> {t}, leaves |-> {t}]

\* Mutant of Edges: marts_group >> archive_csv is missing.
EdgesNoArchiveGate ==
    Chain(Single("run_staging_models"), Single("test_staging_models"))
    \cup Chain(Single("run_intermediate_models"), Single("test_intermediate_models"))
    \cup Chain(Single("run_marts_models"), Single("test_marts_models"))
    \cup Chain(Single("check_new_data"), Single("load_raw_data_to_mysql"))
    \cup Chain(Single("load_raw_data_to_mysql"), Single("dbt_deps"))
    \cup Chain(Single("dbt_deps"), staging_group)
    \cup Chain(staging_group, intermediate_group)
    \cup Chain(intermediate_group, marts_group)

\* The edges <<upstream, downstream>> of the DAG.
Edges ==
    Chain(Single("run_staging_models"), Single("test_staging_models"))
    \cup Chain(Single("run_intermediate_models"), Single("test_intermediate_models"))
    \cup Chain(Single("run_marts_models"), Single("test_marts_models"))
    \cup Chain(Single("check_new_data"), Single("load_raw_data_to_mysql"))
    \cup Chain(Single("load_raw_data_to_mysql"), Single("dbt_deps"))
    \cup Chain(Single("dbt_deps"), staging_group)
    \cup Chain(staging_group, intermediate_group)
    \cup Chain(intermediate_group, marts_group)
    \cup Chain(marts_group, Single("archive_processed_csv"))

UpstreamOf == [t \in TaskIds |-> {e[1] : e \in {d \in Edges : d[2] = t}}]

Upstream(t) == UpstreamOf[t]

\* ------------------------------------------------------------------ state
VARIABLES
    intake,      \* INCOMING_DATA_DIR: name -> file, NoFile when absent
    processed,   \* PROCESSED_DATA_DIR: set of [name, file]
    destDir,     \* TRUE when PROCESSED_DATA_DIR exists
    rawCount,    \* rows of MYSQL_RAW_TABLE
    clock,       \* datetime.now(), in seconds
    events,      \* steps the environment has taken (a file written gets its count as id)
    removed,     \* files removed by an external actor so far
    run,         \* number of the current DAG run, 0 before the first
    state,       \* task -> none | running | up_for_retry | success | failed
    try_number,  \* attempt number of the task instance that runs or awaits its retry, else 0
    pc,          \* position inside the running python callable
    xcom,        \* value published under key csv_file_path in this run, or None
    csv_file,    \* local variable csv_file of the running callable
    df,          \* local: the parsed file [id, rows], NoFile before read_csv
    txn,         \* rows appended inside the open transaction
    dest,        \* local of move_file: destination name
    timestamp,   \* local of move_file: second at which datetime.now() was read, 0 before
    err,         \* exception raised by the latest attempt, NoError when none
    ret,         \* task -> return value of its successful attempt
    runStart,    \* rawCount when the current run was triggered
    loads,       \* file id -> number of committed loads of that file
    loadedId,    \* id of the file whose load this run committed, 0 when none
    rolledBack   \* rows discarded by the latest failed attempt of the task that runs or ran last

vars == <<intake, processed, destDir, rawCount, clock, events, removed, run,
          state, try_number, pc, xcom, csv_file, df, txn, dest, timestamp, err,
          ret, runStart, loads, loadedId, rolledBack>>

fsVars    == <<intake, processed, destDir>>
envVars   == <<clock, events, removed>>

\* --------------------------------------------------------- configuration
CSV_FILE_PATTERN == <<"routes_", "*", ".csv">>

\* ---------------------------------------------------------- file_helpers
\* fnmatch of a name against a pattern; "*" matches any run of tokens.
RECURSIVE Fnmatch(_, _)
Fnmatch(name, pattern) ==
    IF pattern = <<>> THEN name = <<>>
    ELSE IF Head(pattern) = "*"
         THEN \E k \in 0..Len(name) : Fnmatch(SubSeq(name, k + 1, Len(name)), Tail(pattern))
         ELSE /\ name # <<>>
              /\ Head(name) = Head(pattern)
              /\ Fnmatch(Tail(name), Tail(pattern))

\* Mutant of Glob: the pattern is ignored, every file of the directory matches.
GlobAll(dir, pattern) == {n \in DOMAIN dir : dir[n] # NoFile}

\* glob.glob(os.path.join(directory, pattern)) as a set; the list order of
\* the result is arbitrary.
Glob(dir, pattern) == {n \in DOMAIN dir : dir[n] # NoFile /\ Fnmatch(n, pattern)}

\* Every list that holds the elements of S once each.
RECURSIVE Orders(_)
Orders(S) ==
    IF S = {} THEN {<<>>}
    ELSE UNION {{<<x>> \o rest : rest \in Orders(S \ {x})} : x \in S}

\* Mutant of PyMax: the first file of the list, whatever its modification time.
PyMaxFirst(files, dir) == files[1]

\* max(files, key=os.path.getmtime): the first element with the greatest key.
PyMax(files, dir) ==
    LET best[i \in 1..Len(files)] ==
            IF i = 1 THEN files[1]
            ELSE IF dir[files[i]].mtime > dir[best[i - 1]].mtime THEN files[i]
                 ELSE best[i - 1]
    IN  best[Len(files)]

\* find_latest_csv after the glob: files is the list glob returned.
find_latest_csv(files, dir) ==
    IF files = <<>> THEN None ELSE PyMax(files, dir)

\* Mutant of check_file_exists: the size is not looked at.
check_file_exists_only(dir, filepath) == dir[filepath] # NoFile

check_file_exists(dir, filepath) ==
    IF dir[filepath] = NoFile THEN FALSE
    ELSE IF dir[filepath].size = 0 THEN FALSE
    ELSE TRUE

\* os.path.splitext on a token name: <<name, ext>>.
Splitext(filename) ==
    IF Len(filename) >= 2 /\ filename[Len(filename)] = ".csv"
    THEN <<SubSeq(filename, 1, Len(filename) - 1), <<filename[Len(filename)]>>>>
    ELSE <<filename, <<>>>>

\* Mutant of Pad2: the number is not padded to two digits.
Pad2Plain(n) == ToString(n)

Pad2(n) == IF n < 10 THEN "0" \o ToString(n) ELSE ToString(n)

\* datetime.now().strftime('%Y%m%d_%H%M%S') for second t of 2025-11-14.
Strftime(t) ==
    "20251114" \o "_" \o Pad2(t \div 3600) \o Pad2((t \div 60) % 60) \o Pad2(t % 60)

\* Mutant of NewFilename: the file keeps its name, no timestamp is added.
NewFilenamePlain(source, t) == source

\* f"{name}_{timestamp}{ext}"
NewFilename(source, t) ==
    LET parts == Splitext(source)
    IN  parts[1] \o <<"_", Strftime(t)>> \o parts[2]

\* shutil.move(source, destination) on the processed directory: a rename, which
\* replaces an entry of the same name.  An entry also records where the file
\* came from: tag is [src, at, run], the source path, the second of the
\* timestamp and the run of the move.
MoveInto(dir, newname, file, tag) ==
    {e \in dir : e.name # newname}
    \cup {[name |-> newname, file |-> file, src |-> tag.src, at |-> tag.at, run |-> tag.run]}

\* --------------------------------------------------------------- run state
Running(t) == run > 0 /\ state[t] = "running"
Active     == \E t \in TaskIds : state[t] \in {"running", "up_for_retry"}
RunFailed  == run > 0 /\ \E t \in TaskIds : state[t] = "failed"
RunSuccess == run > 0 /\ \A t \in TaskIds : state[t] = "success"
RunEnded   == RunFailed \/ RunSuccess

StartClock == 9 * 3600 + 29 * 60 + 59

\* Identities of files: a file written by the environment's step k has id k,
\* a file placed before the first run has the id after those.
FileIds == 1..(MaxEnv + 1)

\* The intake directory before the first run: empty, or with a CSV file with
\* rows placed in it a second earlier (usage: place the file, trigger the DAG).
InitialIntakes ==
    {[n \in Names |-> NoFile]}
    \cup {[n \in Names |->
              IF n = <<"routes_", "a", ".csv">>
              THEN [id |-> MaxEnv + 1, mtime |-> StartClock - 1, size |-> r + 1, rows |-> r]
              ELSE NoFile] : r \in RowChoices}

Init ==
    /\ intake \in InitialIntakes
    /\ processed = {}
    /\ destDir = FALSE
    /\ rawCount = 0
    /\ clock = StartClock
    /\ events = 0
    /\ removed = 0
    /\ run = 0
    /\ state = [t \in TaskIds |-> "none"]
    /\ try_number = 0
    /\ pc = "idle"
    /\ xcom = None
    /\ csv_file = None
    /\ df = NoFile
    /\ txn = 0
    /\ dest = None
    /\ timestamp = 0
    /\ err = NoError
    /\ ret = [t \in TaskIds |-> NoReturn]
    /\ runStart = 0
    /\ loads = [i \in FileIds |-> 0]
    /\ loadedId = 0
    /\ rolledBack = 0

\* ------------------------------------------------------------- environment
\* An external producer writes a new file into the intake directory; its
\* modification time is the time of the write.
Produce ==
    /\ events < MaxEnv
    /\ \E n \in Names, c \in Contents :
          /\ intake[n] = NoFile
          /\ intake' = [intake EXCEPT ![n] =
                 [id |-> events + 1, mtime |-> clock, size |-> c.size, rows |-> c.rows]]
    /\ events' = events + 1
    /\ UNCHANGED <<processed, destDir, rawCount, clock, removed, run, state,
                   try_number, pc, xcom, csv_file, df, txn, dest, timestamp, err, ret, runStart, loads, loadedId, rolledBack>>

\* An external actor removes a file from the intake directory.
Remove ==
    /\ events < MaxEnv
    /\ \E n \in Names :
          /\ intake[n] # NoFile
          /\ intake' = [intake EXCEPT ![n] = NoFile]
    /\ removed' = removed + 1
    /\ events' = events + 1
    /\ UNCHANGED <<processed, destDir, rawCount, clock, run, state,
                   try_number, pc, xcom, csv_file, df, txn, dest, timestamp, err, ret, runStart, loads, loadedId, rolledBack>>

\* A second passes.
Tick ==
    /\ events < MaxEnv
    /\ clock' = clock + 1
    /\ events' = events + 1
    /\ UNCHANGED <<intake, processed, destDir, rawCount, removed, run,
                   state, try_number, pc, xcom, csv_file, df, txn, dest, timestamp, err, ret,
                   runStart, loads, loadedId, rolledBack>>

\* --------------------------------------------------------------- scheduler
\* Entry point of a task's callable.
Entry(t) ==
    CASE t = "check_new_data"         -> "find"
      [] t = "load_raw_data_to_mysql" -> "read"
      [] t = "archive_processed_csv"  -> "arch_check"
      [] OTHER                        -> "bash"

\* A manual trigger creates a DAG run; runs are serialized.
Trigger ==
    /\ run < MaxRuns
    /\ run = 0 \/ RunEnded
    /\ ~Active
    /\ run' = run + 1
    /\ state' = [t \in TaskIds |-> "none"]
    /\ try_number' = 0
    /\ pc' = "idle"
    /\ xcom' = None
    /\ err' = NoError
    /\ ret' = [t \in TaskIds |-> NoReturn]
    /\ runStart' = rawCount
    /\ loadedId' = 0
    /\ rolledBack' = 0
    /\ csv_file' = None /\ df' = NoFile /\ txn' = 0 /\ dest' = None /\ timestamp' = 0
    /\ UNCHANGED <<fsVars, rawCount, envVars, loads>>

\* A task instance starts when all its upstream tasks succeeded
\* (trigger rule all_success).
Start(t) ==
    /\ run > 0
    /\ state[t] = "none"
    /\ \A u \in Upstream(t) : state[u] = "success"
    /\ state' = [state EXCEPT ![t] = "running"]
    /\ try_number' = 1
    /\ pc' = Entry(t)
    /\ err' = NoError
    /\ rolledBack' = 0
    /\ csv_file' = None /\ df' = NoFile /\ txn' = 0 /\ dest' = None /\ timestamp' = 0
    /\ UNCHANGED <<fsVars, rawCount, envVars, run, xcom, ret, runStart, loads, loadedId>>

\* After a failed attempt the task instance is run again.
Retry(t) ==
    /\ run > 0
    /\ state[t] = "up_for_retry"
    /\ state' = [state EXCEPT ![t] = "running"]
    /\ try_number' = try_number + 1
    /\ pc' = Entry(t)
    /\ err' = NoError
    /\ csv_file' = None /\ df' = NoFile /\ txn' = 0 /\ dest' = None /\ timestamp' = 0
    /\ UNCHANGED <<fsVars, rawCount, envVars, run, xcom, ret, runStart, loads, loadedId, rolledBack>>

\* The attempt raised e: up_for_retry while retries are left, failed after.
\* An open transaction is rolled back (engine.begin() exits on the exception).
Raise(t, e) ==
    /\ state' = [state EXCEPT ![t] = IF try_number <= RETRIES THEN "up_for_retry" ELSE "failed"]
    /\ try_number' = IF try_number <= RETRIES THEN try_number ELSE 0
    /\ err' = e
    /\ pc' = "idle"
    /\ rolledBack' = txn
    /\ csv_file' = None /\ df' = NoFile /\ txn' = 0 /\ dest' = None /\ timestamp' = 0
    /\ UNCHANGED <<run, ret, runStart, loadedId>>

\* The attempt returned v.
Return(t, v) ==
    /\ state' = [state EXCEPT ![t] = "success"]
    /\ ret' = [ret EXCEPT ![t] = <<v>>]
    /\ pc' = "idle"
    /\ loadedId' = IF t = "load_raw_data_to_mysql" THEN df.id ELSE loadedId
    /\ try_number' = 0
    /\ csv_file' = None /\ df' = NoFile /\ txn' = 0 /\ dest' = None /\ timestamp' = 0
    /\ UNCHANGED <<run, err, runStart, rolledBack>>

\* The run is aborted externally while task t runs: the task instance is
\* killed and marked failed, it is not retried, and a transaction it had open
\* ends without a commit.
Abort(t) ==
    /\ Running(t)
    /\ state' = [state EXCEPT ![t] = "failed"]
    /\ pc' = "idle"
    /\ try_number' = 0
    /\ err' = "Aborted"
    /\ rolledBack' = txn
    /\ csv_file' = None /\ df' = NoFile /\ txn' = 0 /\ dest' = None /\ timestamp' = 0
    /\ UNCHANGED <<fsVars, rawCount, envVars, run, xcom, ret, runStart, loads, loadedId>>

\* ------------------------------------------------------ check_for_new_csv
\* csv_file = find_latest_csv(...); raise FileNotFoundError when it is None.
CheckFind ==
    /\ Running("check_new_data") /\ pc = "find"
    /\ \E files \in Orders(Glob(intake, CSV_FILE_PATTERN)) :
          LET found == find_latest_csv(files, intake)
          IN  IF found = None
              THEN /\ Raise("check_new_data", "FileNotFoundError")
                   /\ UNCHANGED xcom
              ELSE /\ csv_file' = found
                   /\ pc' = "validate"
                   /\ UNCHANGED <<state, try_number, run, xcom, df, txn, dest, timestamp,
                                  err, ret, runStart, loadedId, rolledBack>>
    /\ UNCHANGED <<fsVars, rawCount, envVars, loads>>

\* Mutant of CheckValidate: when the selected file fails the check and another
\* matching file passes it, that file is taken in its place.
CheckValidateFallback ==
    /\ Running("check_new_data") /\ pc = "validate"
    /\ IF ~check_file_exists(intake, csv_file)
       THEN IF \E n \in Glob(intake, CSV_FILE_PATTERN) : check_file_exists(intake, n)
            THEN /\ csv_file' = CHOOSE n \in Glob(intake, CSV_FILE_PATTERN) : check_file_exists(intake, n)
                 /\ pc' = "publish"
                 /\ UNCHANGED <<state, try_number, run, df, txn, dest, timestamp,
                                err, ret, runStart, loadedId, rolledBack>>
            ELSE Raise("check_new_data", "ValueError")
       ELSE /\ pc' = "publish"
            /\ UNCHANGED <<state, try_number, run, csv_file, df, txn, dest, timestamp,
                           err, ret, runStart, loadedId, rolledBack>>
    /\ UNCHANGED <<fsVars, rawCount, envVars, xcom, loads>>

\* if not check_file_exists(csv_file): raise ValueError
CheckValidate ==
    /\ Running("check_new_data") /\ pc = "validate"
    /\ IF ~check_file_exists(intake, csv_file)
       THEN Raise("check_new_data", "ValueError")
       ELSE /\ pc' = "publish"
            /\ UNCHANGED <<state, try_number, run, csv_file, df, txn, dest, timestamp,
                           err, ret, runStart, loadedId, rolledBack>>
    /\ UNCHANGED <<fsVars, rawCount, envVars, xcom, loads>>

\* os.path.getsize(csv_file) for the log line, xcom_push, return csv_file.
CheckPublish ==
    /\ Running("check_new_data") /\ pc = "publish"
    /\ IF intake[csv_file] = NoFile
       THEN /\ Raise("check_new_data", "FileNotFoundError")
            /\ UNCHANGED xcom
       ELSE /\ xcom' = csv_file
            /\ Return("check_new_data", csv_file)
    /\ UNCHANGED <<fsVars, rawCount, envVars, loads>>

\* ------------------------------------------------------ load_csv_to_mysql
Min(a, b) == IF a < b THEN a ELSE b

\* Mutant of ChunkRows: every chunk is taken to be a full one.
ChunkRowsFull(nrows, start) == CHUNKSIZE

\* Rows of the chunk that to_sql inserts after start rows have been inserted.
ChunkRows(nrows, start) == Min(start + CHUNKSIZE, nrows) - start

\* Mutant of RolledBack: the inserted rows stay (no transaction around to_sql).
RolledBackNot(count, pending) == count + pending

\* What engine.begin() does with the rows inserted in the transaction when its
\* block is left by an exception: they are rolled back, none reaches the table.
RolledBack(count, pending) == count

\* What engine.begin() does on a successful exit: the pending rows are committed.
Committed(count, pending) == count + pending

\* Mutant of LoadRead: the Loader reads some file of the intake directory, not
\* the published one.
LoadReadAny ==
    /\ Running("load_raw_data_to_mysql") /\ pc = "read"
    /\ IF xcom = None \/ intake[xcom] = NoFile
       THEN Raise("load_raw_data_to_mysql", "FileNotFoundError")
       ELSE \E n \in Names :
            /\ intake[n] # NoFile /\ intake[n].size > 0
            /\ csv_file' = n
            /\ df' = intake[n]
            /\ pc' = "begin"
            /\ UNCHANGED <<state, try_number, run, txn, dest, timestamp, err, ret, runStart, loadedId, rolledBack>>
    /\ UNCHANGED <<fsVars, rawCount, envVars, xcom, loads>>

\* xcom_pull of csv_file_path, then pd.read_csv(csv_file).
LoadRead ==
    /\ Running("load_raw_data_to_mysql") /\ pc = "read"
    /\ IF xcom = None \/ intake[xcom] = NoFile
       THEN Raise("load_raw_data_to_mysql", "FileNotFoundError")
       ELSE IF intake[xcom].size = 0
       THEN Raise("load_raw_data_to_mysql", "EmptyDataError")
       ELSE /\ csv_file' = xcom
            /\ df' = intake[xcom]
            /\ pc' = "begin"
            /\ UNCHANGED <<state, try_number, run, txn, dest, timestamp, err, ret, runStart, loadedId, rolledBack>>
    /\ UNCHANGED <<fsVars, rawCount, envVars, xcom, loads>>

\* create_engine(...) and engine.begin(): a transaction is opened.
LoadBegin ==
    /\ Running("load_raw_data_to_mysql") /\ pc = "begin"
    /\ txn' = 0
    /\ pc' = "batch"
    /\ UNCHANGED <<fsVars, rawCount, envVars, run, state, try_number, xcom,
                   csv_file, df, dest, timestamp, err, ret, runStart, loads, loadedId, rolledBack>>

\* Mutant of LoadBatch: each chunk is committed as it is inserted.
LoadBatchAutocommit ==
    /\ Running("load_raw_data_to_mysql") /\ pc = "batch"
    /\ txn < df.rows
    /\ txn' = txn + ChunkRows(df.rows, txn)
    /\ rawCount' = rawCount + ChunkRows(df.rows, txn)
    /\ UNCHANGED <<fsVars, envVars, run, state, try_number, pc, xcom,
                   csv_file, df, dest, timestamp, err, ret, runStart, loads, loadedId, rolledBack>>

\* df.to_sql(..., if_exists='append', chunksize=10000): one chunk is inserted.
LoadBatch ==
    /\ Running("load_raw_data_to_mysql") /\ pc = "batch"
    /\ txn < df.rows
    /\ txn' = txn + ChunkRows(df.rows, txn)
    /\ UNCHANGED <<fsVars, rawCount, envVars, run, state, try_number, pc, xcom,
                   csv_file, df, dest, timestamp, err, ret, runStart, loads, loadedId, rolledBack>>

\* Mutant of LoadError: the rows inserted before the failure stay in the table.
LoadErrorPartial ==
    /\ Running("load_raw_data_to_mysql") /\ pc \in {"begin", "batch"}
    /\ rawCount' = rawCount + txn
    /\ Raise("load_raw_data_to_mysql", "OperationalError")
    /\ UNCHANGED <<fsVars, envVars, xcom, loads>>

\* The store is unreachable, rejects the credentials or fails an insert or the
\* commit: the exception leaves the with block and the transaction rolls back.
LoadError ==
    /\ Running("load_raw_data_to_mysql") /\ pc \in {"begin", "batch"}
    /\ rawCount' = RolledBack(rawCount, txn)
    /\ Raise("load_raw_data_to_mysql", "OperationalError")
    /\ UNCHANGED <<fsVars, envVars, xcom, loads>>

\* Mutant of LoadCommit: the loaded file is deleted from the intake directory.
LoadCommitDeletes ==
    /\ Running("load_raw_data_to_mysql") /\ pc = "batch"
    /\ txn >= df.rows
    /\ rawCount' = Committed(rawCount, txn)
    /\ loads' = [loads EXCEPT ![df.id] = @ + 1]
    /\ intake' = [intake EXCEPT ![csv_file] = NoFile]
    /\ Return("load_raw_data_to_mysql", df.rows)
    /\ UNCHANGED <<processed, destDir, envVars, xcom>>

\* All chunks inserted: the with block exits, the transaction commits, and
\* the callable returns len(df).
LoadCommit ==
    /\ Running("load_raw_data_to_mysql") /\ pc = "batch"
    /\ txn >= df.rows
    /\ rawCount' = Committed(rawCount, txn)
    /\ loads' = [loads EXCEPT ![df.id] = @ + 1]
    /\ Return("load_raw_data_to_mysql", df.rows)
    /\ UNCHANGED <<fsVars, envVars, xcom>>

\* ------------------------------------------------------------ dbt commands
BashSucceed(t) ==
    /\ t \in BashTasks
    /\ Running(t) /\ pc = "bash"
    /\ Return(t, 0)
    /\ UNCHANGED <<fsVars, rawCount, envVars, xcom, loads>>

\* The dbt command exits with a non-zero code.
BashFail(t) ==
    /\ t \in BashTasks
    /\ Running(t) /\ pc = "bash"
    /\ Raise(t, "AirflowException")
    /\ UNCHANGED <<fsVars, rawCount, envVars, xcom, loads>>

\* -------------------------------------------------- archive_processed_csv
\* Mutant of ArchCheck: move_file is called whenever a path was published, and
\* a source that is gone is an error.
ArchCheckStrict ==
    /\ Running("archive_processed_csv") /\ pc = "arch_check"
    /\ IF xcom # None /\ intake[xcom] # NoFile
       THEN /\ csv_file' = xcom
            /\ pc' = "move_prepare"
            /\ UNCHANGED <<state, try_number, run, df, txn, dest, timestamp, err, ret, runStart, loadedId, rolledBack>>
       ELSE IF xcom # None
       THEN Raise("archive_processed_csv", "FileNotFoundError")
       ELSE Return("archive_processed_csv", None)
    /\ UNCHANGED <<fsVars, rawCount, envVars, xcom, loads>>

\* xcom_pull, then: if csv_file and os.path.exists(csv_file) ... else return None
ArchCheck ==
    /\ Running("archive_processed_csv") /\ pc = "arch_check"
    /\ IF xcom # None /\ intake[xcom] # NoFile
       THEN /\ csv_file' = xcom
            /\ pc' = "move_prepare"
            /\ UNCHANGED <<state, try_number, run, df, txn, dest, timestamp, err, ret, runStart, loadedId, rolledBack>>
       ELSE Return("archive_processed_csv", None)
    /\ UNCHANGED <<fsVars, rawCount, envVars, xcom, loads>>

\* move_file up to the computed destination: the existence check, makedirs,
\* the timestamped name.
MovePrepare ==
    /\ Running("archive_processed_csv") /\ pc = "move_prepare"
    /\ IF intake[csv_file] = NoFile
       THEN /\ Raise("archive_processed_csv", "FileNotFoundError")
            /\ UNCHANGED destDir
       ELSE /\ destDir' = TRUE
            /\ timestamp' = clock
            /\ dest' = NewFilename(csv_file, clock)
            /\ pc' = "move"
            /\ UNCHANGED <<state, try_number, run, csv_file, df, txn, err, ret, runStart, loadedId, rolledBack>>
    /\ UNCHANGED <<intake, processed, rawCount, envVars, xcom, loads>>

\* Mutant of MoveDo: the file is copied, the source stays.
MoveDoCopies ==
    /\ Running("archive_processed_csv") /\ pc = "move"
    /\ IF intake[csv_file] = NoFile
       THEN /\ Raise("archive_processed_csv", "FileNotFoundError")
            /\ UNCHANGED <<intake, processed>>
       ELSE /\ processed' = MoveInto(processed, dest, intake[csv_file],
                                      [src |-> csv_file, at |-> timestamp, run |-> run])
            /\ UNCHANGED intake
            /\ Return("archive_processed_csv", dest)
    /\ UNCHANGED <<destDir, rawCount, envVars, xcom, loads>>

\* shutil.move(source, destination); return destination
MoveDo ==
    /\ Running("archive_processed_csv") /\ pc = "move"
    /\ IF intake[csv_file] = NoFile
       THEN /\ Raise("archive_processed_csv", "FileNotFoundError")
            /\ UNCHANGED <<intake, processed>>
       ELSE /\ processed' = MoveInto(processed, dest, intake[csv_file],
                                      [src |-> csv_file, at |-> timestamp, run |-> run])
            /\ intake' = [intake EXCEPT ![csv_file] = NoFile]
            /\ Return("archive_processed_csv", dest)
    /\ UNCHANGED <<destDir, rawCount, envVars, xcom, loads>>

\* makedirs or the move fails for another reason (permissions, disk full).
MoveError ==
    /\ Running("archive_processed_csv") /\ pc \in {"move_prepare", "move"}
    /\ Raise("archive_processed_csv", "OSError")
    /\ UNCHANGED <<fsVars, rawCount, envVars, xcom, loads>>

\* An operator clears the Archiver's task instance after it succeeded (a
\* re-run of a step that already succeeded): the scheduler runs the task again
\* in the same run, with the same published path.
Clear ==
    /\ run > 0
    /\ state["archive_processed_csv"] = "success"
    /\ state' = [state EXCEPT !["archive_processed_csv"] = "none"]
    /\ ret' = [ret EXCEPT !["archive_processed_csv"] = NoReturn]
    /\ UNCHANGED <<fsVars, rawCount, envVars, run, try_number, pc, xcom, csv_file, df,
                   txn, dest, timestamp, err, runStart, loads, loadedId, rolledBack>>

\* ------------------------------------------------------------------- spec
Next ==
    \/ Produce
    \/ Remove
    \/ Tick
    \/ Trigger
    \/ \E t \in TaskIds : Abort(t)
    \/ \E t \in TaskIds : Start(t)
    \/ \E t \in TaskIds : Retry(t)
    \/ CheckFind
    \/ CheckValidate
    \/ CheckPublish
    \/ LoadRead
    \/ LoadBegin
    \/ LoadBatch
    \/ LoadError
    \/ LoadCommit
    \/ \E t \in BashTasks : BashSucceed(t)
    \/ \E t \in BashTasks : BashFail(t)
    \/ ArchCheck
    \/ MovePrepare
    \/ MoveDo
    \/ MoveError
    \/ Clear

Spec == Init /\ [][Next]_vars

\* ================================================================= claims
Locator  == "check_new_data"
Loader   == "load_raw_data_to_mysql"
Archiver == "archive_processed_csv"

\* The files of the intake directory whose name is routes_<anything>.csv,
\* stated on the names and not through Glob.
Matching == {n \in Names : /\ intake[n] # NoFile
                           /\ Len(n) >= 2
                           /\ n[1] = "routes_"
                           /\ n[Len(n)] = ".csv"}

\* The entries of the processed directory that the current run moved there.
MovedThisRun == {e \in processed : e.run = run}

\* A step of the pipeline (scheduler or callable), as opposed to a step of
\* the environment.
PipelineStep == <<run, state, pc, txn>>' # <<run, state, pc, txn>>

\* The Locator's callable takes a step from position p and is not killed.
LocatorStepAt(p) ==
    /\ Running(Locator) /\ pc = p
    /\ pc' # pc
    /\ err' # "Aborted"

\* C1: while the Loader has not committed (an attempt is running, has failed
\* at any batch and awaits its retry, or has failed for good), the Raw Table's
\* row count is the one the run started with: none of the rows inserted before
\* the failure is visible.
C1_RollbackAtomic ==
    state[Loader] \in {"running", "up_for_retry", "failed"} => rawCount = runStart

\* C1 witness: an attempt of the Loader failed after a full chunk had been
\* inserted.
C1_Witness ==
    /\ state[Loader] \in {"up_for_retry", "failed"}
    /\ err = "OperationalError"
    /\ rolledBack >= CHUNKSIZE
    /\ rawCount = runStart

\* C2: the step by which the Loader succeeds adds exactly the N rows parsed
\* from the file to the Raw Table and returns N; and a file that is the only
\* one loaded so far has contributed its N rows once per committed load, so
\* that two loads of it make 2N.
C2_LoadAddsN ==
    /\ [][(state[Loader] = "running" /\ state'[Loader] = "success")
            => /\ rawCount' = rawCount + df.rows
               /\ ret'[Loader] = <<df.rows>>]_vars
    /\ [](\A n \in Names :
            (/\ intake[n] # NoFile
             /\ \A i \in FileIds : i # intake[n].id => loads[i] = 0)
            => rawCount = loads[intake[n].id] * intake[n].rows)

\* C2 witness: the same file was loaded twice and the table holds 2N rows.
C2_Witness ==
    \E n \in Names :
        /\ intake[n] # NoFile
        /\ intake[n].rows > CHUNKSIZE
        /\ loads[intake[n].id] = 2
        /\ rawCount = 2 * intake[n].rows
        /\ ret[Loader] = <<intake[n].rows>>

\* C3: a task has left state none only if every task upstream of it
\* succeeded: the Loader only after the Locator, the Archiver only after all
\* nine tasks before it; a run whose Locator failed started neither and left
\* the Raw Table and the processed directory's writer alone.
C3_NoDownstreamOfFailure ==
    /\ \A t \in TaskIds : state[t] # "none" => \A u \in Upstream(t) : state[u] = "success"
    /\ state[Loader] # "none" => state[Locator] = "success"
    /\ state[Archiver] # "none" => \A u \in TaskIds \ {Archiver} : state[u] = "success"
    /\ state[Locator] = "failed"
          => /\ state[Loader] = "none"
             /\ state[Archiver] = "none"
             /\ rawCount = runStart
             /\ xcom = None

\* C3 witness: the Locator failed on an empty or missing file after its retry
\* and nothing downstream has run.
C3_Witness ==
    /\ state[Locator] = "failed"
    /\ err \in {"FileNotFoundError", "ValueError"}
    /\ \A t \in TaskIds \ {Locator} : state[t] = "none"

\* C4 as stated: whatever step a run fails at, the Raw Table has the row count
\* the run started with.
C4_Original == RunFailed => rawCount = runStart

\* C4 amended: a run that fails at the Locator or at the Loader leaves the Raw
\* Table's row count as it was at the start of the run; a run that fails after
\* its Loader succeeded keeps the N rows the Loader committed.
C4_FailedBeforeCommit ==
    /\ (RunFailed /\ state[Loader] # "success") => rawCount = runStart
    /\ (RunFailed /\ state[Loader] = "success") => rawCount = runStart + ret[Loader][1]

\* C4 witness: the second run failed at the Loader, after rows had been
\* inserted, over a table that already held rows.
C4_Witness ==
    /\ RunFailed
    /\ err = "OperationalError"
    /\ state[Loader] = "failed"
    /\ rolledBack > 0
    /\ runStart > 0
    /\ rawCount = runStart

\* C5 as stated: no file has its rows appended more than once.
C5_Original == \A i \in FileIds : loads[i] <= 1

\* C5 amended: a file's rows are appended at most once per run, and when a run
\* has ended successfully the file whose load it committed is no longer in the
\* intake directory, where the Locator of a later run would find it.
C5_OncePerRunArchivedOnSuccess ==
    /\ \A i \in FileIds : loads[i] <= run
    /\ RunSuccess => /\ loadedId # 0
                     /\ \A n \in Names : intake[n].id # loadedId

\* C5 witness: a file loaded by a first run that failed was loaded again by
\* the second run, which succeeded and archived it.
C5_Witness ==
    /\ RunSuccess
    /\ run = 2
    /\ loads[loadedId] = 2
    /\ \E e \in processed : e.file.id = loadedId

\* C6: no step of the pipeline other than the move of the Archiver changes
\* the intake directory; so, unless an external actor removed a file, the path
\* the Locator published holds a file until the Archiver has moved it.
C6_OnlyArchiverTouchesIntake ==
    /\ [][(PipelineStep /\ ~(Running(Archiver) /\ pc = "move")) => intake' = intake]_vars
    /\ []((removed = 0 /\ xcom # None /\ MovedThisRun = {}) => intake[xcom] # NoFile)

\* C6 witness: a run aborted while the Loader was inserting; the selected file
\* is still at its path.
C6_Witness ==
    /\ err = "Aborted"
    /\ state[Loader] = "failed"
    /\ rolledBack > 0
    /\ xcom # None
    /\ intake[xcom] # NoFile

\* C7: when files match the pattern, find_latest_csv returns, for every order
\* in which glob may list them, one of the matching files, and none of them
\* has a greater modification time.
C7_LatestOfMatching ==
    Matching # {} =>
        \A files \in Orders(Glob(intake, CSV_FILE_PATTERN)) :
            LET latest == find_latest_csv(files, intake)
            IN  /\ latest \in Matching
                /\ \A n \in Matching : intake[n].mtime <= intake[latest].mtime

\* C7 witness: the Locator selected the newer of two matching files.
C7_Witness ==
    /\ Running(Locator) /\ pc = "validate"
    /\ Cardinality(Matching) = 2
    /\ csv_file \in Matching
    /\ \E n \in Matching : intake[n].mtime < intake[csv_file].mtime

\* C8: with no file matching the pattern find_latest_csv returns None, and the
\* attempt of check_for_new_csv ends with FileNotFoundError and nothing
\* published.
C8_NoneFound ==
    /\ [](Matching = {} =>
            \A files \in Orders(Glob(intake, CSV_FILE_PATTERN)) :
                find_latest_csv(files, intake) = None)
    /\ [][(LocatorStepAt("find") /\ Matching = {})
            => /\ err' = "FileNotFoundError"
               /\ state'[Locator] \in {"up_for_retry", "failed"}
               /\ xcom' = None]_vars

\* C8 witness: the Locator failed with FileNotFoundError in a directory that
\* never held a matching file but holds another file.
C8_Witness ==
    /\ state[Locator] = "failed"
    /\ err = "FileNotFoundError"
    /\ xcom = None
    /\ run = 1 /\ removed = 0
    /\ Matching = {}
    /\ \E n \in Names : intake[n] # NoFile

\* C9: check_file_exists is False for every file of zero bytes, whatever its
\* name, and the attempt of check_for_new_csv that validates one ends with
\* ValueError and nothing published.
C9_EmptyFileFails ==
    /\ [](\A n \in Names : (intake[n] # NoFile /\ intake[n].size = 0)
                              => ~check_file_exists(intake, n))
    /\ [][(/\ LocatorStepAt("validate")
           /\ intake[csv_file] # NoFile
           /\ intake[csv_file].size = 0)
            => /\ err' = "ValueError"
               /\ state'[Locator] \in {"up_for_retry", "failed"}
               /\ xcom' = None]_vars

\* C9 witness: the Locator failed with ValueError on an empty file that nobody
\* removed, next to an empty file whose name does not match the pattern.
C9_Witness ==
    /\ state[Locator] \in {"up_for_retry", "failed"}
    /\ err = "ValueError"
    /\ removed = 0
    /\ xcom = None
    /\ \E n \in Matching : intake[n].size = 0
    /\ \E n \in Names \ Matching : intake[n] # NoFile /\ intake[n].size = 0

\* C10 as stated: when the selected path is gone at validation, the attempt
\* ends with a not-found error (FileNotFoundError), not with the error raised
\* for an empty file (ValueError).
C10_VanishedIsNotFound ==
    [][(LocatorStepAt("validate") /\ intake[csv_file] = NoFile)
         => err' = "FileNotFoundError"]_vars

\* The Archiver's callable takes a step from position p and is not killed.
ArchiverStepAt(p) ==
    /\ Running(Archiver) /\ pc = p
    /\ pc' # pc
    /\ err' # "Aborted"

\* C11: when archive_processed_csv is called again for the published path
\* after a call of the same run moved the file, and the path holds no file, the
\* call returns None, raises nothing, and leaves the intake directory and the
\* processed directory as they were.
C11_SecondArchiveNothingToDo ==
    [][(/\ ArchiverStepAt("arch_check")
        /\ \E e \in MovedThisRun : e.src = xcom
        /\ intake[xcom] = NoFile)
         => /\ state'[Archiver] = "success"
            /\ ret'[Archiver] = <<None>>
            /\ err' = NoError
            /\ intake' = intake
            /\ processed' = processed
            /\ destDir' = destDir]_vars

\* C11 witness: the second call returned None; the file the first call moved
\* is in the processed directory and its path in the intake directory is free.
C11_Witness ==
    /\ state[Archiver] = "success"
    /\ ret[Archiver] = <<None>>
    /\ err = NoError
    /\ \E e \in MovedThisRun : e.src = xcom /\ e.file.id = loadedId
    /\ intake[xcom] = NoFile

\* The stem of a file name: the name without its extension.
Stem(filename) == Splitext(filename)[1]

\* The step by which move_file moves the file and returns.
MoveStep ==
    /\ ArchiverStepAt("move")
    /\ state'[Archiver] = "success"

\* C12: a move writes a destination path that did not exist in the processed
\* directory, provided no file of the same stem was archived there with a
\* timestamp of the same second.
C12_NoOverwrite ==
    [][(/\ MoveStep
        /\ \A e \in processed : ~(Stem(e.src) = Stem(csv_file) /\ e.at = timestamp))
         => /\ \A e \in processed : e.name # dest
            /\ \A e \in processed : e \in processed'
            /\ Cardinality(processed') = Cardinality(processed) + 1]_vars

\* C12 witness: two files of the same stem, archived in different seconds, are
\* both in the processed directory.
C12_Witness ==
    \E e1, e2 \in processed :
        /\ Stem(e1.src) = Stem(e2.src)
        /\ e1.at # e2.at
        /\ e1.name # e2.name
        /\ e1.file.id # e2.file.id

\* YYYYMMDD_HHMMSS of the seconds from 09:29:59 on, 2025-11-14, written out.
FormattedSeconds ==
    (StartClock     :> "20251114_092959") @@
    (StartClock + 1 :> "20251114_093000") @@
    (StartClock + 2 :> "20251114_093001") @@
    (StartClock + 3 :> "20251114_093002") @@
    (StartClock + 4 :> "20251114_093003") @@
    (StartClock + 5 :> "20251114_093004")

\* C13: the step by which move_file moves a source with stem s and extension
\* e, its timestamp read at second t, leaves the destination directory
\* existing, the file in it under the name s, "_", t as YYYYMMDD_HHMMSS, e,
\* the source path free, that name as the returned value, and the file in
\* exactly one place.
C13_MovedToStampedName ==
    [][MoveStep =>
        LET file    == intake[csv_file]
            newname == Stem(csv_file) \o <<"_", FormattedSeconds[timestamp]>> \o Splitext(csv_file)[2]
        IN  /\ timestamp \in DOMAIN FormattedSeconds
            /\ timestamp <= clock
            /\ destDir'
            /\ \E e \in processed' : e.name = newname /\ e.file = file
            /\ Cardinality({e \in processed' : e.file.id = file.id}) = 1
            /\ intake'[csv_file] = NoFile
            /\ \A n \in Names : intake'[n].id # file.id
            /\ ret'[Archiver] = <<newname>>]_vars

\* C13 witness: routes_a.csv was moved with a timestamp read at 09:30:00; the
\* directory was created, the file is at routes_a_20251114_093000.csv, which
\* is the returned value, and its source path is free.
C13_Witness ==
    /\ state[Archiver] = "success"
    /\ destDir
    /\ ret[Archiver] = << <<"routes_", "a", "_", "20251114_093000", ".csv">> >>
    /\ intake[<<"routes_", "a", ".csv">>] = NoFile
    /\ \E e \in processed :
          /\ e.name = <<"routes_", "a", "_", "20251114_093000", ".csv">>
          /\ e.src = <<"routes_", "a", ".csv">>
          /\ e.file.rows > 0

\* C14: within a run one path is published and it does not change; the path
\* the Loader reads and the path the Archiver checks and moves are that path;
\* a commit counts one load, of the file read from it; a step of the pipeline
\* changes the intake directory at no other path, so that files at other paths,
\* whenever they arrive, are neither loaded nor moved; every file the run moved
\* came from that path; and, when no file was removed by an external actor,
\* the first file the run moves is the file it loaded.
C14_OneFilePerRun ==
    /\ []((Running(Loader) /\ pc \in {"begin", "batch"})
            => csv_file = xcom /\ xcom # None)
    /\ []((Running(Archiver) /\ pc \in {"move_prepare", "move"})
            => csv_file = xcom /\ xcom # None)
    /\ [](\A e \in MovedThisRun : e.src = xcom)
    /\ [][(xcom # None /\ run' = run) => xcom' = xcom]_vars
    /\ [][(Running(Loader) /\ pc = "read" /\ pc' = "begin")
            => df' = [id |-> intake[xcom].id, rows |-> intake[xcom].rows,
                      mtime |-> intake[xcom].mtime, size |-> intake[xcom].size]]_vars
    /\ [][loads' # loads
            => /\ Running(Loader)
               /\ loadedId = 0
               /\ loadedId' = df.id
               /\ loads' = [loads EXCEPT ![df.id] = @ + 1]]_vars
    /\ [][PipelineStep => \A n \in Names \ {xcom} : intake'[n] = intake[n]]_vars
    /\ [][(MoveStep /\ removed = 0 /\ MovedThisRun = {})
            => intake[csv_file].id = loadedId]_vars

\* C14 witness: a run succeeded; it archived the file it loaded, and a newer
\* non-empty matching file, which arrived during the run, is still in the
\* intake directory and was never loaded.
C14_Witness ==
    /\ RunSuccess
    /\ \E e \in MovedThisRun :
          /\ e.file.id = loadedId
          /\ e.src = xcom
          /\ \E n \in Matching \ {xcom} :
                /\ intake[n].mtime > e.file.mtime
                /\ intake[n].rows > 0
                /\ loads[intake[n].id] = 0

\* The order of the tasks of a run, as the claim lists it.
FixedOrder ==
    <<"check_new_data", "load_raw_data_to_mysql", "dbt_deps",
      "run_staging_models", "test_staging_models",
      "run_intermediate_models", "test_intermediate_models",
      "run_marts_models", "test_marts_models", "archive_processed_csv">>

\* The fixed order lists every task of the DAG.
FixedOrderCoversTasks == TaskIds = {FixedOrder[i] : i \in 1..Len(FixedOrder)}

\* C15: a task of a run has started only if the task before it in the fixed
\* order succeeded, hence only if all tasks before it succeeded: the dbt tasks
\* only after the Loader succeeded, the Archiver only after all of them; and at
\* most one task of the run is running or awaiting its retry.
C15_FixedOrderNoOverlap ==
    /\ FixedOrderCoversTasks
    /\ \A i \in 2..Len(FixedOrder) :
          state[FixedOrder[i]] # "none" => state[FixedOrder[i - 1]] = "success"
    /\ \A t \in TaskIds :
          state[t] \in {"running", "up_for_retry"}
             => \A u \in TaskIds \ {t} : state[u] \notin {"running", "up_for_retry"}

\* C15 witness: test_intermediate_models runs its second attempt; the six
\* tasks before it succeeded and the three after it have not started.
C15_Witness ==
    /\ Running(FixedOrder[7])
    /\ try_number = 2
    /\ \A i \in 1..6 : state[FixedOrder[i]] = "success"
    /\ \A i \in 8..10 : state[FixedOrder[i]] = "none"

\* The rows of the file the run selected and loaded, read off the file where
\* it now is: at the published path or in the processed directory.
SelectedRows ==
    {intake[n].rows : n \in {m \in Names : intake[m].id = loadedId}}
    \cup {e.file.rows : e \in {f \in processed : f.file.id = loadedId}}

\* C16: no task is attempted more than twice; and from the moment the Loader
\* has succeeded, on its first attempt or on its second, to the end of the
\* run, whatever attempts of later tasks fail and are retried, the Raw Table
\* holds the rows it held when the run started and N more, N being the number
\* the Loader returned and the number of rows of the selected file.
C16_RetriesAddNOnce ==
    /\ try_number <= RETRIES + 1
    /\ state[Loader] = "success"
          => /\ rawCount = runStart + ret[Loader][1]
             /\ loadedId # 0
             /\ \A r \in SelectedRows : r = ret[Loader][1]
    /\ RunSuccess => rawCount = runStart + ret[Loader][1]

\* C16 witness: the Loader succeeded on its second attempt, after its first
\* attempt failed with at least one full chunk inserted, over a table that
\* already held rows; the table has grown by N.
C16_Witness ==
    /\ state[Loader] = "success"
    /\ rolledBack >= CHUNKSIZE
    /\ runStart > 0
    /\ ret[Loader][1] > CHUNKSIZE
    /\ rawCount = runStart + ret[Loader][1]
    /\ SelectedRows = {ret[Loader][1]}

\* C17 as stated: whenever an external actor removes the intake file, the
\* Archiver ends with the new path or with None; it never fails the run with
\* the source-not-found error (FileNotFoundError).
C17_MissingSourceNotFatal ==
    ~(state[Archiver] = "failed" /\ err = "FileNotFoundError")

\* C18: the Locator selects one file, a matching file of the greatest
\* modification time, and validates that file only: when it has zero bytes the
\* attempt ends with ValueError, whatever other matching files there are,
\* older and non-empty ones included; no path is published, then or while the
\* Locator stands failed, and the intake directory is left as it is.
C18_NoFallback ==
    /\ [][(LocatorStepAt("find") /\ Matching # {})
            => /\ csv_file' \in Matching
               /\ \A n \in Matching : intake[n].mtime <= intake[csv_file'].mtime
               /\ pc' = "validate"]_vars
    /\ [][(/\ LocatorStepAt("validate")
           /\ intake[csv_file] # NoFile
           /\ intake[csv_file].size = 0)
            => /\ err' = "ValueError"
               /\ state'[Locator] \in {"up_for_retry", "failed"}
               /\ \A t \in TaskIds \ {Locator} : state'[t] = "none"
               /\ xcom' = None
               /\ intake' = intake]_vars
    /\ [](state[Locator] \in {"up_for_retry", "failed"} => xcom = None)

\* C18 witness: the Locator failed with ValueError on the newest matching
\* file, which is empty, while an older matching file with rows is in the
\* intake directory; nothing was published and nothing was loaded.
C18_Witness ==
    /\ state[Locator] = "failed"
    /\ err = "ValueError"
    /\ xcom = None
    /\ rawCount = runStart
    /\ \E new, old \in Matching :
          /\ intake[new].size = 0
          /\ \A n \in Matching : intake[n].mtime <= intake[new].mtime
          /\ intake[old].mtime < intake[new].mtime
          /\ intake[old].rows > 0

====
